---- MODULE Spec2Model ----
(***************************************************************************)
(* State-machine model of the PostgreSQL observability proxy               *)
(* (package proxy/postgres): the per-connection relay of conn.go, its      *)
(* extended-query and transaction tracking, and the bounded event channel  *)
(* created by New.                                                         *)
(*                                                                         *)
(* Strings of the program are sequences of one-character strings, so that  *)
(* strings.TrimSpace, strings.ToUpper, strings.HasPrefix, strings.Split,   *)
(* strconv.FormatUint and strconv.ParseInt are computed, not assumed.      *)
(* Statement and portal names are only ever compared, and are kept as      *)
(* TLA+ strings.  Event.StartTime and conn.executeStart (wall-clock        *)
(* readings) are not modelled.                                             *)
(***************************************************************************)
EXTENDS Integers, Sequences, FiniteSets, TLC

(***************************************************************************)
(* Bounds of the model.                                                    *)
(***************************************************************************)
\* Number of connection slots the accept loop may fill.
NumConns == 2
\* Capacity of the event channel; New makes it 256 (part_002:30), the model
\* scales it down so that a full channel is reached.
ChanCap == 2
\* Frontend messages decoded in one run, per workload.
MaxMsgs == 2
MaxTxMsgs == 5
MaxExtMsgs == 4
MaxLoadMsgs == 4
MaxReplyMsgs == 2
\* Backend messages decoded in one run of the reply workload.
MaxBackendMsgs == 2
\* Frontend and backend messages decoded in one run of the life-cycle
\* workload.
MaxLifeMsgs == 1
MaxLifeBackendMsgs == 2
\* Frontend messages decoded in one run of the two-way workload.
MaxDuplexMsgs == 3
\* Frontend messages decoded in one run of the two-connection workload.
MaxPairMsgs == 3
\* SpecSave: messages decoded from the client, and from the upstream
MaxSaveMsgs == 3
MaxSaveBackendMsgs == 1
\* SpecDrop: messages decoded from the client
MaxDropMsgs == 4
\* SpecPortal: messages decoded from the client
MaxPortalMsgs == 5

Conns == 1..NumConns

(***************************************************************************)
(* Strings.                                                                *)
(***************************************************************************)
Lower == <<"a","b","c","d","e","f","g","h","i","j","k","l","m",
           "n","o","p","q","r","s","t","u","v","w","x","y","z">>
Upper == <<"A","B","C","D","E","F","G","H","I","J","K","L","M",
           "N","O","P","Q","R","S","T","U","V","W","X","Y","Z">>
DigitChar == <<"0","1","2","3","4","5","6","7","8","9">>
\* unicode.IsSpace on the characters the model uses
SpaceChars == {" ", "\t", "\n", "\r", "\f"}

UpperChar(ch) ==
    IF \E i \in 1..26 : Lower[i] = ch
    THEN Upper[CHOOSE i \in 1..26 : Lower[i] = ch]
    ELSE ch

\* strings.ToUpper
ToUpper(s) == [i \in 1..Len(s) |-> UpperChar(s[i])]

RECURSIVE TrimLeft(_)
TrimLeft(s) ==
    IF s # <<>> /\ Head(s) \in SpaceChars THEN TrimLeft(Tail(s)) ELSE s

RECURSIVE TrimRight(_)
TrimRight(s) ==
    IF s # <<>> /\ s[Len(s)] \in SpaceChars
    THEN TrimRight(SubSeq(s, 1, Len(s) - 1))
    ELSE s

\* strings.TrimSpace
TrimSpace(s) == TrimRight(TrimLeft(s))

\* strings.HasPrefix
HasPrefix(s, p) == Len(s) >= Len(p) /\ SubSeq(s, 1, Len(p)) = p

\* strconv.FormatUint(n, 10)
RECURSIVE FormatUint(_)
FormatUint(n) ==
    IF n < 10
    THEN <<DigitChar[n + 1]>>
    ELSE Append(FormatUint(n \div 10), DigitChar[(n % 10) + 1])

\* the last field of strings.Split(s, " "): the text after the last space
RECURSIVE LastField(_)
LastField(s) ==
    IF s = <<>> \/ s[Len(s)] = " "
    THEN <<>>
    ELSE Append(LastField(SubSeq(s, 1, Len(s) - 1)), s[Len(s)])

IsDigit(ch) == \E i \in 1..10 : DigitChar[i] = ch
DigitVal(ch) == (CHOOSE i \in 1..10 : DigitChar[i] = ch) - 1

RECURSIVE DigitsValue(_)
DigitsValue(s) ==
    IF s = <<>> THEN 0
    ELSE 10 * DigitsValue(SubSeq(s, 1, Len(s) - 1)) + DigitVal(s[Len(s)])

\* n of n, _ := strconv.ParseInt(s, 10, 64): 0 on a syntax error.  (The
\* clamping to the int64 range on a range error needs more than twenty
\* digits, which no tag of the model has.)
ParseInt(s) ==
    LET signed == s # <<>> /\ s[1] \in {"+", "-"}
        digits == IF signed THEN Tail(s) ELSE s
    IN  IF digits = <<>> \/ \E i \in 1..Len(digits) : ~IsDigit(digits[i])
        THEN 0
        ELSE IF signed /\ s[1] = "-"
             THEN -DigitsValue(digits)
             ELSE DigitsValue(digits)

\* parseRowsAffected
parseRowsAffected(tag) == ParseInt(LastField(tag))

(***************************************************************************)
(* Texts used by the workloads.                                            *)
(***************************************************************************)
kwBEGIN    == <<"B","E","G","I","N">>
kwCOMMIT   == <<"C","O","M","M","I","T">>
kwROLLBACK == <<"R","O","L","L","B","A","C","K">>

qSelect   == <<"S","E","L","E","C","T"," ","1">>
qBegin    == <<" ","b","e","g","i","n">>
qCommit   == <<"c","o","m","m","i","t">>
qRollback == <<"R","O","L","L","B","A","C","K","\n">>
qSum      == <<"S","E","L","E","C","T"," ","$","1","+","$","2">>
qInsert   == <<"I","N","S","E","R","T"," ","t">>
qSavepoint  == <<"S","A","V","E","P","O","I","N","T"," ","a">>
qRelease    == <<"R","E","L","E","A","S","E"," ","S","A","V","E","P","O","I","N","T"," ","a">>
qRollbackTo == <<"r","o","l","l","b","a","c","k"," ","t","o"," ","s","a","v","e","p","o","i","n","t"," ","a">>

tagInsert3 == <<"I","N","S","E","R","T"," ","0"," ","3">>
tagCreate  == <<"C","R","E","A","T","E"," ","T","A","B","L","E">>

(***************************************************************************)
(* Protocol messages (pgproto3).  Only the fields conn.go reads, and the   *)
(* portal of Bind and Execute, are kept.                                   *)
(***************************************************************************)
Query(text) == [type |-> "Query", String |-> text]
Parse(name, text) == [type |-> "Parse", Name |-> name, Query |-> text]
Bind(portal, stmt, params) ==
    [type |-> "Bind", DestinationPortal |-> portal,
     PreparedStatement |-> stmt, Parameters |-> params]
Execute(portal) == [type |-> "Execute", Portal |-> portal]
Sync == [type |-> "Sync"]
NoMsg == [type |-> "none"]

CommandComplete(tag) == [type |-> "CommandComplete", CommandTag |-> tag]
ErrorResponse == [type |-> "ErrorResponse"]
ReadyForQuery == [type |-> "ReadyForQuery"]
\* a backend message of the startup phase that relayStartup's switch ignores
AuthenticationOk == [type |-> "AuthenticationOk"]

\* A Bind parameter is a byte slice, or nil for SQL NULL.
Param(bytes) == [null |-> FALSE, bytes |-> bytes]
NullParam == [null |-> TRUE, bytes |-> <<>>]

\* string(p) for p []byte: the same bytes; the empty string for a nil slice
StringOf(p) == IF p.null THEN <<>> ELSE p.bytes

\* A []string that may be nil.
NilSlice == [nil |-> TRUE, vals |-> <<>>]
Slice(vals) == [nil |-> FALSE, vals |-> vals]

(***************************************************************************)
(* proxy.Event, as conn.go fills it: the fields it does not set keep       *)
(* their zero values.                                                      *)
(***************************************************************************)
OpQuery == "Query"
OpExecute == "Execute"
OpBegin == "Begin"
OpCommit == "Commit"
OpRollback == "Rollback"

Event(id, op, query, args, txid) ==
    [ID |-> id, Op |-> op, Query |-> query, Args |-> args, TxID |-> txid,
     RowsAffected |-> 0, Error |-> <<>>]

\* uuid.New().String(): the k-th identifier drawn; identifiers drawn at
\* different times differ and none is empty
uuidNew(k) == <<"u">> \o FormatUint(k)

(***************************************************************************)
(* State.                                                                  *)
(***************************************************************************)
VARIABLES
    phase,        \* per connection: "idle" (no relay), "relay" (pumps running)
    st,           \* per connection: the conn struct's tracking fields
    cpc,          \* client-to-upstream pump: "recv", "capture" or "fwd"
    cmsg,         \* the message the client-to-upstream pump holds
    clientLog,    \* messages decoded from the client socket, in order
    toUpstream,   \* messages written to the upstream socket, in order
    upc,          \* upstream-to-client pump: "recv", "capture" or "fwd"
    umsg,         \* the message the upstream-to-client pump holds
    upstreamLog,  \* messages decoded from the upstream socket, in order
    toClient,     \* messages written to the client socket, in order
    events,       \* Proxy.events: the buffered channel's content
    delivered,    \* what the subscriber has received from Events()
    attempts,     \* history: every event handed to emitEvent, in order
    uuids,        \* number of identifiers uuid.New has drawn
    listener,     \* Proxy.listener: "nil", or the listener "open" or "closed"
    ctxDone,      \* the context given to ListenAndServe is cancelled
    serve,        \* ListenAndServe: "init", "accept" (in its loop), "returned"
    closeCall,    \* a call of Close: "idle", "wait" (in wg.Wait), "nil", "err"
    clientConn,   \* per connection: the client socket, "none", "open", "closed"
    upstreamConn, \* per connection: the upstream socket, likewise
    errCh,        \* per connection: what the pumps have sent on relay's
                  \* errCh, in order ("nil" or "err"); relay has received
                  \* the first once it is closing, both once it has returned
    err           \* per connection: relay's err, "none" before it is assigned

proxyVars == <<listener, ctxDone, serve, closeCall>>
sockVars == <<clientConn, upstreamConn>>
relayVars == <<errCh, err>>

vars == <<phase, st, cpc, cmsg, clientLog, toUpstream, upc, umsg,
          upstreamLog, toClient, events, delivered, attempts, uuids,
          listener, ctxDone, serve, closeCall, clientConn, upstreamConn,
          errCh, err>>

\* newConn: the tracking fields of a fresh conn
InitConnState ==
    [preparedStmts |-> {},     \* a map, as its set of (name, query) entries
     lastParse |-> <<>>,
     lastBindArgs |-> NilSlice,
     lastBindStmt |-> "",
     activeTxID |-> <<>>,
     nextID |-> 0]

Init ==
    /\ phase = [c \in Conns |-> "idle"]
    /\ st = [c \in Conns |-> InitConnState]
    /\ cpc = [c \in Conns |-> "recv"]
    /\ cmsg = [c \in Conns |-> NoMsg]
    /\ clientLog = [c \in Conns |-> <<>>]
    /\ toUpstream = [c \in Conns |-> <<>>]
    /\ upc = [c \in Conns |-> "recv"]
    /\ umsg = [c \in Conns |-> NoMsg]
    /\ upstreamLog = [c \in Conns |-> <<>>]
    /\ toClient = [c \in Conns |-> <<>>]
    /\ events = <<>>
    /\ delivered = <<>>
    /\ attempts = <<>>
    /\ uuids = 0
    /\ listener = "nil"
    /\ ctxDone = FALSE
    /\ serve = "init"
    /\ closeCall = "idle"
    /\ clientConn = [c \in Conns |-> "none"]
    /\ upstreamConn = [c \in Conns |-> "none"]
    /\ errCh = [c \in Conns |-> <<>>]
    /\ err = [c \in Conns |-> "none"]

(***************************************************************************)
(* The capture hooks of conn.go, as functions of the connection's          *)
(* tracking state s.  A hook yields the new tracking state, the event it   *)
(* hands to emitEvent (a sequence of none or one), and whether it drew an  *)
(* identifier from uuid.New.                                               *)
(***************************************************************************)
MapHas(m, name) == \E e \in m : e.name = name
MapGet(m, name) == (CHOOSE e \in m : e.name = name).query
MapPut(m, name, text) ==
    {e \in m : e.name # name} \cup {[name |-> name, query |-> text]}

IsBeginClass(query) == HasPrefix(ToUpper(TrimSpace(query)), kwBEGIN)
IsEndClass(query) ==
    \/ HasPrefix(ToUpper(TrimSpace(query)), kwCOMMIT)
    \/ HasPrefix(ToUpper(TrimSpace(query)), kwROLLBACK)

\* detectTx with the ROLLBACK case left out
detectTxCommitOnly(s, query, fresh) ==
    LET upper == ToUpper(TrimSpace(query))
    IN  IF HasPrefix(upper, kwBEGIN)
        THEN [st |-> [s EXCEPT !.activeTxID = fresh], used |-> TRUE]
        ELSE IF HasPrefix(upper, kwCOMMIT)
             THEN [st |-> [s EXCEPT !.activeTxID = <<>>], used |-> FALSE]
             ELSE [st |-> s, used |-> FALSE]

\* the case detectTx's switch takes for a query text
txCase(query) ==
    LET upper == ToUpper(TrimSpace(query))
    IN  IF HasPrefix(upper, kwBEGIN) THEN "begin"
        ELSE IF HasPrefix(upper, kwCOMMIT) \/ HasPrefix(upper, kwROLLBACK)
             THEN "end"
             ELSE "other"

\* txCase, tabulated over the texts of the workloads (the empty text is
\* lastParse before any Parse)
Texts ==
    {qSelect, qBegin, qCommit, qRollback, qSum, qInsert, qSavepoint, qRelease,
     qRollbackTo, <<>>}
txCaseOf == [q \in Texts |-> txCase(q)]

\* detectTx keeping the identifier of a transaction that is already active
detectTxKeepsOuter(s, query, fresh) ==
    CASE txCaseOf[query] = "begin" /\ s.activeTxID = <<>> ->
             [st |-> [s EXCEPT !.activeTxID = fresh], used |-> TRUE]
      [] txCaseOf[query] = "end" ->
             [st |-> [s EXCEPT !.activeTxID = <<>>], used |-> FALSE]
      [] OTHER -> [st |-> s, used |-> FALSE]

\* detectTx: fresh is the identifier uuid.New would return
detectTx(s, query, fresh) ==
    CASE txCaseOf[query] = "begin" ->
             [st |-> [s EXCEPT !.activeTxID = fresh], used |-> TRUE]
      [] txCaseOf[query] = "end" ->
             [st |-> [s EXCEPT !.activeTxID = <<>>], used |-> FALSE]
      [] OTHER -> [st |-> s, used |-> FALSE]

\* generateID without the increment of the counter
generateIDStuck(s) == [st |-> s, id |-> FormatUint(s.nextID + 1)]

\* generateID: the counter is a uint64; it does not wrap within the bounds
generateID(s) ==
    [st |-> [s EXCEPT !.nextID = s.nextID + 1],
     id |-> FormatUint(s.nextID + 1)]

handleSimpleQuery(s, m, fresh) ==
    LET q == m.String
        d == detectTx(s, q, fresh)
        g == generateID(d.st)
    IN  [st |-> g.st,
         evs |-> <<Event(g.id, OpQuery, q, NilSlice, g.st.activeTxID)>>,
         used |-> d.used]

\* handleParse running the transaction detection on the text it stores
handleParseDetectsTx(s, m) ==
    LET s1 == detectTx([s EXCEPT !.lastParse = m.Query], m.Query,
                       <<"u", "0">>).st
    IN  [st |-> IF m.Name # ""
                THEN [s1 EXCEPT !.preparedStmts =
                                   MapPut(s.preparedStmts, m.Name, m.Query)]
                ELSE s1,
         evs |-> <<>>,
         used |-> FALSE]

handleParse(s, m) ==
    LET s1 == [s EXCEPT !.lastParse = m.Query]
    IN  [st |-> IF m.Name # ""
                THEN [s1 EXCEPT !.preparedStmts =
                                   MapPut(s.preparedStmts, m.Name, m.Query)]
                ELSE s1,
         evs |-> <<>>,
         used |-> FALSE]

\* handleBind recording only a Bind to the unnamed portal
handleBindUnnamedPortal(s, m) ==
    [st |-> IF m.DestinationPortal = ""
            THEN [s EXCEPT
                    !.lastBindStmt = m.PreparedStatement,
                    !.lastBindArgs =
                        Slice([i \in 1..Len(m.Parameters) |->
                                  StringOf(m.Parameters[i])])]
            ELSE s,
     evs |-> <<>>,
     used |-> FALSE]

\* handleBind filling lastBindArgs from the last parameter to the first
handleBindReversed(s, m) ==
    [st |-> [s EXCEPT
               !.lastBindStmt = m.PreparedStatement,
               !.lastBindArgs =
                   Slice([i \in 1..Len(m.Parameters) |->
                             StringOf(m.Parameters[Len(m.Parameters) + 1 - i])])],
     evs |-> <<>>,
     used |-> FALSE]

handleBind(s, m) ==
    [st |-> [s EXCEPT
               !.lastBindStmt = m.PreparedStatement,
               !.lastBindArgs =
                   Slice([i \in 1..Len(m.Parameters) |->
                             StringOf(m.Parameters[i])])],
     evs |-> <<>>,
     used |-> FALSE]

\* the resolution without the look-up in preparedStmts
resolveQueryLastParse(s) == s.lastParse

\* the query text handleExecute resolves
resolveQuery(s) ==
    IF s.lastBindStmt # "" /\ MapHas(s.preparedStmts, s.lastBindStmt)
    THEN MapGet(s.preparedStmts, s.lastBindStmt)
    ELSE s.lastParse

handleExecute(s, fresh) ==
    LET q == resolveQuery(s)
        d == detectTx(s, q, fresh)
        g == generateID(d.st)
    IN  [st |-> g.st,
         evs |-> <<Event(g.id, OpExecute, q, g.st.lastBindArgs,
                         g.st.activeTxID)>>,
         used |-> d.used]

\* captureClientMsg without the Execute case
captureClientMsgNoExecute(s, m, fresh) ==
    CASE m.type = "Query" -> handleSimpleQuery(s, m, fresh)
      [] m.type = "Parse" -> handleParse(s, m)
      [] m.type = "Bind" -> handleBind(s, m)
      [] OTHER -> [st |-> s, evs |-> <<>>, used |-> FALSE]

captureClientMsg(s, m, fresh) ==
    CASE m.type = "Query" -> handleSimpleQuery(s, m, fresh)
      [] m.type = "Parse" -> handleParse(s, m)
      [] m.type = "Bind" -> handleBind(s, m)
      [] m.type = "Execute" -> handleExecute(s, fresh)
      [] OTHER -> [st |-> s, evs |-> <<>>, used |-> FALSE]

\* handleCommandComplete computes the row count and discards it
handleCommandComplete(s, m) ==
    LET rows == parseRowsAffected(m.CommandTag)
    IN  [st |-> s, evs |-> <<>>, used |-> FALSE]

\* handleErrorResponse taking the error for the end of the transaction
handleErrorResponseEndsTx(s, m) ==
    [st |-> [s EXCEPT !.activeTxID = <<>>], evs |-> <<>>, used |-> FALSE]

\* handleErrorResponse discards the message
handleErrorResponse(s, m) == [st |-> s, evs |-> <<>>, used |-> FALSE]

\* captureUpstreamMsg emitting an event of its own for a CommandComplete
captureUpstreamMsgEmits(s, m) ==
    CASE m.type = "CommandComplete" ->
             LET g == generateID(s)
             IN  [st |-> g.st,
                  evs |-> <<Event(g.id, OpQuery, m.CommandTag, NilSlice,
                                  g.st.activeTxID)>>,
                  used |-> FALSE]
      [] m.type = "ErrorResponse" -> handleErrorResponse(s, m)
      [] OTHER -> [st |-> s, evs |-> <<>>, used |-> FALSE]

captureUpstreamMsg(s, m) ==
    CASE m.type = "CommandComplete" -> handleCommandComplete(s, m)
      [] m.type = "ErrorResponse" -> handleErrorResponse(s, m)
      [] OTHER -> [st |-> s, evs |-> <<>>, used |-> FALSE]

(***************************************************************************)
(* The event channel.  An element carries, beside the event, the           *)
(* connection that produced it and the position in that connection's       *)
(* clientLog of the message that triggered it: history, for stating the    *)
(* properties; the program sends the event alone.                          *)
(***************************************************************************)
Tagged(c, ev) == [ev |-> ev, conn |-> c, at |-> Len(clientLog[c])]

\* emitEvent as a plain send, c.events <- ev: it waits for room
emitEventBlocking(c, ev) ==
    /\ Len(events) < ChanCap
    /\ events' = Append(events, Tagged(c, ev))

\* emitEvent making room by discarding the oldest event held
emitEventDropOldest(c, ev) ==
    IF Len(events) < ChanCap
    THEN events' = Append(events, Tagged(c, ev))
    ELSE events' = Append(Tail(events), Tagged(c, ev))

\* emitEvent: select { case c.events <- ev: default: }
emitEvent(c, ev) ==
    IF Len(events) < ChanCap
    THEN events' = Append(events, Tagged(c, ev))
    ELSE events' = events

\* the hand-over keeping the hook's effects on the tracking fields only
\* when the event finds room in the channel
ApplyUnlessFull(c, r) ==
    /\ st' = IF r.evs # <<>> /\ Len(events) >= ChanCap
             THEN st ELSE [st EXCEPT ![c] = r.st]
    /\ uuids' = IF r.used THEN uuids + 1 ELSE uuids
    /\ IF r.evs # <<>>
       THEN /\ emitEvent(c, r.evs[1])
            /\ attempts' = Append(attempts, Tagged(c, r.evs[1]))
       ELSE UNCHANGED <<events, attempts>>

\* the hand-over with the tracking fields held once for all connections
ApplyShared(c, r) ==
    /\ st' = [d \in Conns |-> r.st]
    /\ uuids' = IF r.used THEN uuids + 1 ELSE uuids
    /\ IF r.evs # <<>>
       THEN /\ emitEvent(c, r.evs[1])
            /\ attempts' = Append(attempts, Tagged(c, r.evs[1]))
       ELSE UNCHANGED <<events, attempts>>

\* the hand-over of what a hook yields: the event to emitEvent, the state
\* to the conn, the identifier counted as drawn
Apply(c, r) ==
    /\ st' = [st EXCEPT ![c] = r.st]
    /\ uuids' = IF r.used THEN uuids + 1 ELSE uuids
    /\ IF r.evs # <<>>
       THEN /\ emitEvent(c, r.evs[1])
            /\ attempts' = Append(attempts, Tagged(c, r.evs[1]))
       ELSE UNCHANGED <<events, attempts>>

(***************************************************************************)
(* Actions.                                                                *)
(***************************************************************************)
RECURSIVE SumLen(_, _)
SumLen(f, S) ==
    IF S = {} THEN 0
    ELSE LET c == CHOOSE x \in S : TRUE
         IN  Len(f[c]) + SumLen(f, S \ {c})

Decoded == SumLen(clientLog, Conns)
DecodedBackend == SumLen(upstreamLog, Conns)

\* The phases of a connection slot: "idle" (not accepted), "dial",
\* "hello", "auth", "authFwd", "authInspect" (relayStartup), "relay" (the
\* pumps run), "closing" (relay has closed the sockets and waits for the
\* second pump), and handleConn returned: "done", "dropped" (the dial
\* failed), "startupErr" (relayStartup failed).
Pumping(c) == phase[c] \in {"relay", "closing"}
Returned(c) == phase[c] \in {"done", "dropped", "startupErr"}
\* the relay tasks p.wg counts
InFlight(c) == phase[c] # "idle" /\ ~Returned(c)

\* The errors a Receive or a write ends with: io.EOF; a *net.OpError
\* "use of closed network connection" ("closedConn"); a *net.OpError
\* with another cause, as a reset by the peer ("reset"); an error of
\* another type whose text contains "closed" ("closedText"); any other
\* error, as a message that cannot be decoded ("decode").
isClosedErr(e) ==
    CASE e = "EOF" -> TRUE
      [] e \in {"closedConn", "reset"} -> e = "closedConn"
      [] OTHER -> e = "closedText"

\* what a pump returns when its Receive or its write ends with e
pumpResult(e) == IF isClosedErr(e) THEN "nil" ELSE "err"

\* what a pump returns when it finds ctx.Err() set: a non-nil error
ctxErr == "err"

\* go func() { errCh <- ... }(): a pump's result is sent on errCh
Sent(c, e) == [errCh EXCEPT ![c] = Append(@, e)]

\* handleConn up to the start of the two pumps, in one step: the upstream
\* is dialed, newConn builds the conn, the startup phase has ended with
\* ReadyForQuery and both pumps have passed their first ctx.Err() check
handleConn(c) ==
    /\ phase[c] = "idle"
    /\ phase' = [phase EXCEPT ![c] = "relay"]
    /\ st' = [st EXCEPT ![c] = InitConnState]
    /\ clientConn' = [clientConn EXCEPT ![c] = "open"]
    /\ upstreamConn' = [upstreamConn EXCEPT ![c] = "open"]
    /\ UNCHANGED <<cpc, cmsg, clientLog, toUpstream, upc, umsg, upstreamLog,
                   toClient, events, delivered, attempts, uuids, proxyVars, relayVars>>

\* relayClientToUpstream: c.client.Receive() returns m
ClientReceive(c, m) ==
    /\ Pumping(c)
    /\ cpc[c] = "recv"
    /\ clientConn[c] = "open"
    /\ cmsg' = [cmsg EXCEPT ![c] = m]
    /\ clientLog' = [clientLog EXCEPT ![c] = Append(@, m)]
    /\ cpc' = [cpc EXCEPT ![c] = "capture"]
    /\ UNCHANGED <<phase, st, toUpstream, upc, umsg, upstreamLog, toClient,
                   events, delivered, attempts, uuids, proxyVars, relayVars, sockVars>>

\* relayClientToUpstream: c.captureClientMsg(msg)
ClientCapture(c) ==
    /\ Pumping(c)
    /\ cpc[c] = "capture"
    /\ \E r \in {captureClientMsg(st[c], cmsg[c], uuidNew(uuids + 1))} :
          Apply(c, r)
    /\ cpc' = [cpc EXCEPT ![c] = "fwd"]
    /\ UNCHANGED <<phase, cmsg, clientLog, toUpstream, upc, umsg,
                   upstreamLog, toClient, delivered, proxyVars, relayVars, sockVars>>

\* the forwarding step writing the message only while the event channel
\* has room
ClientForwardUnlessFull(c) ==
    /\ Pumping(c)
    /\ cpc[c] = "fwd"
    /\ upstreamConn[c] = "open"
    /\ toUpstream' = [toUpstream EXCEPT ![c] =
                          IF Len(events) < ChanCap THEN Append(@, cmsg[c])
                          ELSE @]
    /\ cmsg' = [cmsg EXCEPT ![c] = NoMsg]
    /\ cpc' = [cpc EXCEPT ![c] = IF ctxDone THEN "done" ELSE "recv"]
    /\ errCh' = IF ctxDone THEN Sent(c, ctxErr) ELSE errCh
    /\ UNCHANGED <<phase, st, clientLog, upc, umsg, upstreamLog, toClient,
                   events, delivered, attempts, uuids, proxyVars, err, sockVars>>

\* relayClientToUpstream: encodeAndWrite(c.upstreamConn, msg) succeeds, and
\* the check of ctx.Err() at the top of the next round
ClientForward(c) ==
    /\ Pumping(c)
    /\ cpc[c] = "fwd"
    /\ upstreamConn[c] = "open"
    /\ toUpstream' = [toUpstream EXCEPT ![c] = Append(@, cmsg[c])]
    /\ cmsg' = [cmsg EXCEPT ![c] = NoMsg]
    /\ cpc' = [cpc EXCEPT ![c] = IF ctxDone THEN "done" ELSE "recv"]
    /\ errCh' = IF ctxDone THEN Sent(c, ctxErr) ELSE errCh
    /\ UNCHANGED <<phase, st, clientLog, upc, umsg, upstreamLog, toClient,
                   events, delivered, attempts, uuids, proxyVars, err, sockVars>>

IsReply(m) == m.type \in {"CommandComplete", "ErrorResponse"}
IsRequest(m) == m.type \in {"Query", "Execute"}

\* how many replies, or requests, a sequence of messages holds
Replies(seq) == Cardinality({i \in 1..Len(seq) : IsReply(seq[i])})
Requests(seq) == Cardinality({i \in 1..Len(seq) : IsRequest(seq[i])})

\* relayUpstreamToClient: c.upstream.Receive() returns m.  The upstream
\* completes (or fails) a request only after it was written to it.
UpstreamReceive(c, m) ==
    /\ Pumping(c)
    /\ upc[c] = "recv"
    /\ upstreamConn[c] = "open"
    /\ IsReply(m) =>
          Replies(upstreamLog[c]) < Requests(toUpstream[c])
    /\ umsg' = [umsg EXCEPT ![c] = m]
    /\ upstreamLog' = [upstreamLog EXCEPT ![c] = Append(@, m)]
    /\ upc' = [upc EXCEPT ![c] = "capture"]
    /\ UNCHANGED <<phase, st, cpc, cmsg, clientLog, toUpstream, toClient,
                   events, delivered, attempts, uuids, proxyVars, relayVars, sockVars>>

\* relayUpstreamToClient: c.captureUpstreamMsg(msg)
UpstreamCapture(c) ==
    /\ Pumping(c)
    /\ upc[c] = "capture"
    /\ \E r \in {captureUpstreamMsg(st[c], umsg[c])} : Apply(c, r)
    /\ upc' = [upc EXCEPT ![c] = "fwd"]
    /\ UNCHANGED <<phase, cpc, cmsg, clientLog, toUpstream, umsg,
                   upstreamLog, toClient, delivered, proxyVars, relayVars, sockVars>>

\* relayUpstreamToClient: encodeAndWrite(c.clientConn, msg) succeeds, and
\* the check of ctx.Err() at the top of the next round
UpstreamForward(c) ==
    /\ Pumping(c)
    /\ upc[c] = "fwd"
    /\ clientConn[c] = "open"
    /\ toClient' = [toClient EXCEPT ![c] = Append(@, umsg[c])]
    /\ umsg' = [umsg EXCEPT ![c] = NoMsg]
    /\ upc' = [upc EXCEPT ![c] = IF ctxDone THEN "done" ELSE "recv"]
    /\ errCh' = IF ctxDone THEN Sent(c, ctxErr) ELSE errCh
    /\ UNCHANGED <<phase, st, cpc, cmsg, clientLog, toUpstream, upstreamLog,
                   events, delivered, attempts, uuids, proxyVars, err, sockVars>>

\* What the subscriber holds: the element received and, as history, how
\* many replies of the upstream had been written to that connection's
\* client by then.
Received(x) ==
    [ev |-> x.ev, conn |-> x.conn, at |-> x.at,
     seen |-> Replies(toClient[x.conn])]

\* a subscriber receives from Events()
SubscriberReceive ==
    /\ events # <<>>
    /\ delivered' = Append(delivered, Received(Head(events)))
    /\ events' = Tail(events)
    /\ UNCHANGED <<phase, st, cpc, cmsg, clientLog, toUpstream, upc, umsg,
                   upstreamLog, toClient, attempts, uuids, proxyVars, relayVars, sockVars>>

(***************************************************************************)
(* The life of the proxy and of a connection: ListenAndServe, Close,       *)
(* handleConn, relay and relayStartup, step by step.                       *)
(***************************************************************************)
pumpVars == <<cpc, cmsg, clientLog, toUpstream, upc, umsg, upstreamLog,
              toClient>>
chanVars == <<events, delivered, attempts, uuids>>

\* ListenAndServe up to its accept loop: lc.Listen fails on a cancelled
\* context; otherwise p.listener is set and the goroutine that waits for
\* ctx.Done() is started
ListenAndServe ==
    /\ serve = "init"
    /\ IF ctxDone
       THEN serve' = "returned" /\ UNCHANGED listener
       ELSE serve' = "accept" /\ listener' = "open"
    /\ UNCHANGED <<phase, st, pumpVars, chanVars, ctxDone, closeCall,
                   sockVars, relayVars>>

\* the caller cancels the context
Cancel ==
    /\ ~ctxDone
    /\ ctxDone' = TRUE
    /\ UNCHANGED <<phase, st, pumpVars, chanVars, listener, serve,
                   closeCall, sockVars, relayVars>>

\* go func() { <-ctx.Done(); _ = lis.Close() }()
ListenerWatcher ==
    /\ ctxDone
    /\ listener = "open"
    /\ listener' = "closed"
    /\ UNCHANGED <<phase, st, pumpVars, chanVars, ctxDone, serve,
                   closeCall, sockVars, relayVars>>

\* lis.Accept() returns a client connection (the slots fill in order) and
\* p.wg.Go starts handleConn for it
AcceptConn(c) ==
    /\ serve = "accept"
    /\ listener = "open"
    /\ phase[c] = "idle"
    /\ \A d \in Conns : d < c => phase[d] # "idle"
    /\ phase' = [phase EXCEPT ![c] = "dial"]
    /\ clientConn' = [clientConn EXCEPT ![c] = "open"]
    /\ UNCHANGED <<st, pumpVars, chanVars, proxyVars, relayVars, upstreamConn>>

\* lis.Accept() fails on the closed listener: ListenAndServe returns
AcceptFail ==
    /\ serve = "accept"
    /\ listener = "closed"
    /\ serve' = "returned"
    /\ UNCHANGED <<phase, st, pumpVars, chanVars, listener, ctxDone,
                   closeCall, sockVars, relayVars>>

\* Close up to wg.Wait.  p.listener is read without synchronisation with
\* ListenAndServe's write of it, so the read yields the listener or nil.
\* Closing a listener that is already closed fails, and Close returns
\* that error at once.
CloseCall ==
    /\ closeCall = "idle"
    /\ serve # "init"
    /\ \E seen \in {listener, "nil"} :
          CASE seen = "nil" ->
                   closeCall' = "wait" /\ UNCHANGED listener
            [] seen = "open" ->
                   closeCall' = "wait" /\ listener' = "closed"
            [] seen = "closed" ->
                   closeCall' = "err" /\ UNCHANGED listener
    /\ UNCHANGED <<phase, st, pumpVars, chanVars, ctxDone, serve, sockVars, relayVars>>

\* Close: p.wg.Wait() returns once no relay task is running
CloseWait ==
    /\ closeCall = "wait"
    /\ \A c \in Conns : ~InFlight(c)
    /\ closeCall' = "nil"
    /\ UNCHANGED <<phase, st, pumpVars, chanVars, listener, ctxDone, serve,
                   sockVars, relayVars>>

\* handleConn with the client connection left open when the dial fails
DialFailKeepsClient(c) ==
    /\ phase[c] = "dial"
    /\ phase' = [phase EXCEPT ![c] = "dropped"]
    /\ UNCHANGED <<st, pumpVars, chanVars, proxyVars, relayVars, sockVars>>

\* relayStartup failing without the deferred Close calls of handleConn
StartupFailLeavesSockets(c) ==
    /\ phase[c] \in {"hello", "auth"}
    /\ phase' = [phase EXCEPT ![c] = "startupErr"]
    /\ UNCHANGED <<st, pumpVars, chanVars, proxyVars, relayVars, sockVars>>

\* handleConn: d.DialContext fails; the deferred clientConn.Close() runs
DialFail(c) ==
    /\ phase[c] = "dial"
    /\ phase' = [phase EXCEPT ![c] = "dropped"]
    /\ clientConn' = [clientConn EXCEPT ![c] = "closed"]
    /\ UNCHANGED <<st, pumpVars, chanVars, proxyVars, relayVars, upstreamConn>>

\* handleConn: d.DialContext succeeds (it fails on a cancelled context),
\* newConn builds the conn, relay calls relayStartup
DialOk(c) ==
    /\ phase[c] = "dial"
    /\ ~ctxDone
    /\ phase' = [phase EXCEPT ![c] = "hello"]
    /\ upstreamConn' = [upstreamConn EXCEPT ![c] = "open"]
    /\ st' = [st EXCEPT ![c] = InitConnState]
    /\ UNCHANGED <<pumpVars, chanVars, proxyVars, relayVars, clientConn>>

\* handleConn's deferred Close of both connections
CloseBoth(c) ==
    /\ clientConn' = [clientConn EXCEPT ![c] = "closed"]
    /\ upstreamConn' = [upstreamConn EXCEPT ![c] = "closed"]

\* relayStartup: the client's startup message is received and written to
\* the upstream
StartupHello(c) ==
    /\ phase[c] = "hello"
    /\ phase' = [phase EXCEPT ![c] = "auth"]
    /\ UNCHANGED <<st, pumpVars, chanVars, proxyVars, relayVars, sockVars>>

\* relayStartup: a Receive fails (the peer ended the stream); relay
\* returns the startup error and handleConn returns
StartupFail(c) ==
    /\ phase[c] \in {"hello", "auth"}
    /\ phase' = [phase EXCEPT ![c] = "startupErr"]
    /\ CloseBoth(c)
    /\ UNCHANGED <<st, pumpVars, chanVars, proxyVars, relayVars>>

\* relayStartup: c.upstream.Receive() returns m
StartupReceive(c, m) ==
    /\ phase[c] = "auth"
    /\ phase' = [phase EXCEPT ![c] = "authFwd"]
    /\ umsg' = [umsg EXCEPT ![c] = m]
    /\ upstreamLog' = [upstreamLog EXCEPT ![c] = Append(@, m)]
    /\ UNCHANGED <<st, cpc, cmsg, clientLog, toUpstream, upc, toClient,
                   chanVars, proxyVars, relayVars, sockVars>>

\* relayStartup: encodeAndWrite(c.clientConn, msg)
StartupForward(c) ==
    /\ phase[c] = "authFwd"
    /\ phase' = [phase EXCEPT ![c] = "authInspect"]
    /\ toClient' = [toClient EXCEPT ![c] = Append(@, umsg[c])]
    /\ UNCHANGED <<st, cpc, cmsg, clientLog, toUpstream, upc, umsg,
                   upstreamLog, chanVars, proxyVars, relayVars, sockVars>>

\* the switch of relayStartup taking an ErrorResponse for any other message
StartupInspectIgnoresError(c) ==
    /\ phase[c] = "authInspect"
    /\ umsg' = [umsg EXCEPT ![c] = NoMsg]
    /\ IF umsg[c].type = "ReadyForQuery"
       THEN /\ phase' = [phase EXCEPT ![c] = "relay"]
            /\ cpc' = [cpc EXCEPT ![c] = "start"]
            /\ upc' = [upc EXCEPT ![c] = "start"]
       ELSE /\ phase' = [phase EXCEPT ![c] = "auth"]
            /\ UNCHANGED <<cpc, upc>>
    /\ UNCHANGED <<st, cmsg, clientLog, toUpstream, upstreamLog, toClient,
                   chanVars, proxyVars, relayVars, sockVars>>

\* relayStartup: switch msg.(type).  On ReadyForQuery relay starts the two
\* pumps; on ErrorResponse relay and handleConn return.
StartupInspect(c) ==
    /\ phase[c] = "authInspect"
    /\ umsg' = [umsg EXCEPT ![c] = NoMsg]
    /\ CASE umsg[c].type = "ReadyForQuery" ->
                /\ phase' = [phase EXCEPT ![c] = "relay"]
                /\ cpc' = [cpc EXCEPT ![c] = "start"]
                /\ upc' = [upc EXCEPT ![c] = "start"]
                /\ UNCHANGED sockVars
         [] umsg[c].type = "ErrorResponse" ->
                /\ phase' = [phase EXCEPT ![c] = "startupErr"]
                /\ CloseBoth(c)
                /\ UNCHANGED <<cpc, upc>>
         [] OTHER ->
                /\ phase' = [phase EXCEPT ![c] = "auth"]
                /\ UNCHANGED <<cpc, upc, sockVars>>
    /\ UNCHANGED <<st, cmsg, clientLog, toUpstream, upstreamLog, toClient,
                   chanVars, proxyVars, relayVars>>

\* relayClientToUpstream starts: its first check of ctx.Err()
ClientPumpStart(c) ==
    /\ Pumping(c)
    /\ cpc[c] = "start"
    /\ cpc' = [cpc EXCEPT ![c] = IF ctxDone THEN "done" ELSE "recv"]
    /\ errCh' = IF ctxDone THEN Sent(c, ctxErr) ELSE errCh
    /\ UNCHANGED <<phase, st, cmsg, clientLog, toUpstream, upc, umsg,
                   upstreamLog, toClient, chanVars, proxyVars, err, sockVars>>

\* relayUpstreamToClient starts: its first check of ctx.Err()
UpstreamPumpStart(c) ==
    /\ Pumping(c)
    /\ upc[c] = "start"
    /\ upc' = [upc EXCEPT ![c] = IF ctxDone THEN "done" ELSE "recv"]
    /\ errCh' = IF ctxDone THEN Sent(c, ctxErr) ELSE errCh
    /\ UNCHANGED <<phase, st, cpc, cmsg, clientLog, toUpstream, umsg,
                   upstreamLog, toClient, chanVars, proxyVars, err, sockVars>>

\* relayClientToUpstream: c.client.Receive() fails with io.EOF because the
\* client ended the stream; the pump returns
ClientHangup(c) ==
    /\ Pumping(c)
    /\ cpc[c] = "recv"
    /\ clientConn[c] = "open"
    /\ cpc' = [cpc EXCEPT ![c] = "done"]
    /\ errCh' = Sent(c, pumpResult("EOF"))
    /\ UNCHANGED <<phase, st, cmsg, clientLog, toUpstream, upc, umsg,
                   upstreamLog, toClient, chanVars, proxyVars, err, sockVars>>

\* relayClientToUpstream: c.client.Receive() fails because clientConn has
\* been closed; the pump returns
ClientReceiveClosed(c) ==
    /\ Pumping(c)
    /\ cpc[c] = "recv"
    /\ clientConn[c] = "closed"
    /\ cpc' = [cpc EXCEPT ![c] = "done"]
    /\ errCh' = Sent(c, pumpResult("closedConn"))
    /\ UNCHANGED <<phase, st, cmsg, clientLog, toUpstream, upc, umsg,
                   upstreamLog, toClient, chanVars, proxyVars, err, sockVars>>

\* relayClientToUpstream: encodeAndWrite fails on the closed upstreamConn;
\* the pump returns
ClientForwardErr(c) ==
    /\ Pumping(c)
    /\ cpc[c] = "fwd"
    /\ upstreamConn[c] = "closed"
    /\ cmsg' = [cmsg EXCEPT ![c] = NoMsg]
    /\ cpc' = [cpc EXCEPT ![c] = "done"]
    /\ errCh' = Sent(c, pumpResult("closedConn"))
    /\ UNCHANGED <<phase, st, clientLog, toUpstream, upc, umsg,
                   upstreamLog, toClient, chanVars, proxyVars, err, sockVars>>

\* relayUpstreamToClient: c.upstream.Receive() fails with io.EOF because
\* the upstream ended the stream; the pump returns
UpstreamHangup(c) ==
    /\ Pumping(c)
    /\ upc[c] = "recv"
    /\ upstreamConn[c] = "open"
    /\ upc' = [upc EXCEPT ![c] = "done"]
    /\ errCh' = Sent(c, pumpResult("EOF"))
    /\ UNCHANGED <<phase, st, cpc, cmsg, clientLog, toUpstream, umsg,
                   upstreamLog, toClient, chanVars, proxyVars, err, sockVars>>

\* relayUpstreamToClient: c.upstream.Receive() fails because upstreamConn
\* has been closed; the pump returns
UpstreamReceiveClosed(c) ==
    /\ Pumping(c)
    /\ upc[c] = "recv"
    /\ upstreamConn[c] = "closed"
    /\ upc' = [upc EXCEPT ![c] = "done"]
    /\ errCh' = Sent(c, pumpResult("closedConn"))
    /\ UNCHANGED <<phase, st, cpc, cmsg, clientLog, toUpstream, umsg,
                   upstreamLog, toClient, chanVars, proxyVars, err, sockVars>>

\* relayUpstreamToClient: encodeAndWrite fails on the closed clientConn;
\* the pump returns
UpstreamForwardErr(c) ==
    /\ Pumping(c)
    /\ upc[c] = "fwd"
    /\ clientConn[c] = "closed"
    /\ umsg' = [umsg EXCEPT ![c] = NoMsg]
    /\ upc' = [upc EXCEPT ![c] = "done"]
    /\ errCh' = Sent(c, pumpResult("closedConn"))
    /\ UNCHANGED <<phase, st, cpc, cmsg, clientLog, toUpstream,
                   upstreamLog, toClient, chanVars, proxyVars, err, sockVars>>

\* relayClientToUpstream: c.client.Receive() fails with the error e; the
\* pump returns nil if isClosedErr(e), and the error otherwise
ClientReceiveErr(c, e) ==
    /\ Pumping(c)
    /\ cpc[c] = "recv"
    /\ clientConn[c] = "open"
    /\ cpc' = [cpc EXCEPT ![c] = "done"]
    /\ errCh' = Sent(c, pumpResult(e))
    /\ UNCHANGED <<phase, st, cmsg, clientLog, toUpstream, upc, umsg,
                   upstreamLog, toClient, chanVars, proxyVars, sockVars, err>>

\* relayUpstreamToClient: c.upstream.Receive() fails with e likewise
UpstreamReceiveErr(c, e) ==
    /\ Pumping(c)
    /\ upc[c] = "recv"
    /\ upstreamConn[c] = "open"
    /\ upc' = [upc EXCEPT ![c] = "done"]
    /\ errCh' = Sent(c, pumpResult(e))
    /\ UNCHANGED <<phase, st, cpc, cmsg, clientLog, toUpstream, umsg,
                   upstreamLog, toClient, chanVars, proxyVars, sockVars, err>>

\* relay taking the first pump's result without closing the connections
relayCloseLeavesSockets(c) ==
    /\ phase[c] = "relay"
    /\ cpc[c] = "done" \/ upc[c] = "done"
    /\ phase' = [phase EXCEPT ![c] = "closing"]
    /\ err' = [err EXCEPT ![c] = errCh[c][1]]
    /\ UNCHANGED <<st, pumpVars, chanVars, proxyVars, errCh, sockVars>>

\* relay: err := <-errCh (the first result sent); c.clientConn.Close();
\* c.upstreamConn.Close()
relayClose(c) ==
    /\ phase[c] = "relay"
    /\ cpc[c] = "done" \/ upc[c] = "done"
    /\ phase' = [phase EXCEPT ![c] = "closing"]
    /\ err' = [err EXCEPT ![c] = errCh[c][1]]
    /\ CloseBoth(c)
    /\ UNCHANGED <<st, pumpVars, chanVars, proxyVars, errCh>>

\* relay: the second <-errCh, whose value is discarded; relay returns err
\* and handleConn returns
relayReturn(c) ==
    /\ phase[c] = "closing"
    /\ cpc[c] = "done"
    /\ upc[c] = "done"
    /\ phase' = [phase EXCEPT ![c] = "done"]
    /\ UNCHANGED <<st, pumpVars, chanVars, proxyVars, relayVars, sockVars>>

(***************************************************************************)
(* Workloads: the messages the peers send, and the specifications.         *)
(***************************************************************************)
argsOneTwo == <<Param(<<"1">>), Param(<<"2">>)>>
argsNull == <<NullParam>>

\* transaction control, by simple queries and by an unnamed statement
TxMsgs ==
    {Query(qBegin), Query(qCommit), Query(qSelect),
     Parse("", qRollback), Parse("", qBegin), Execute("")}

\* the extended query protocol
\* ("s2" is a statement name no Parse of the workload uses)
ExtMsgs ==
    {Parse("", qSelect), Parse("s1", qSum), Parse("s1", qSelect),
     Bind("", "", argsOneTwo), Bind("", "s1", argsOneTwo),
     Bind("", "s1", argsNull), Bind("", "s2", argsNull),
     Execute(""), Query(qSelect), Sync}

\* a query load on the event channel
LoadMsgs == {Query(qSelect), Sync}

\* queries and the upstream's answers
ReplyMsgs == {Query(qInsert)}
BackendMsgs ==
    {CommandComplete(tagInsert3), CommandComplete(tagCreate),
     ErrorResponse, ReadyForQuery}

AllMsgs == TxMsgs \cup ExtMsgs \cup LoadMsgs \cup ReplyMsgs

Accept == \E c \in Conns : handleConn(c)
\* a single client connects
AcceptOne == handleConn(1)
Capture == \E c \in Conns : ClientCapture(c)
Forward == \E c \in Conns : ClientForward(c)
BackCapture == \E c \in Conns : UpstreamCapture(c)
BackForward == \E c \in Conns : UpstreamForward(c)

Receive ==
    \E c \in Conns, m \in AllMsgs : Decoded < MaxMsgs /\ ClientReceive(c, m)
BackReceive ==
    \E c \in Conns, m \in BackendMsgs :
        DecodedBackend < MaxBackendMsgs /\ UpstreamReceive(c, m)

Next ==
    \/ Accept
    \/ Receive
    \/ Capture
    \/ Forward
    \/ BackReceive
    \/ BackCapture
    \/ BackForward
    \/ SubscriberReceive

Spec == Init /\ [][Next]_vars

ReceiveTx ==
    \E c \in Conns, m \in TxMsgs : Decoded < MaxTxMsgs /\ ClientReceive(c, m)

\* The tracking state is per connection (st[c]): the transaction workload
\* and the extended-protocol workload are run on one connection.
NextTx == AcceptOne \/ ReceiveTx \/ Capture \/ Forward

SpecTx == Init /\ [][NextTx]_vars

ReceiveExt ==
    \E c \in Conns, m \in ExtMsgs :
        Decoded < MaxExtMsgs /\ ClientReceive(c, m)

NextExt == AcceptOne \/ ReceiveExt \/ Capture \/ Forward

SpecExt == Init /\ [][NextExt]_vars

ReceiveLoad ==
    \E c \in Conns, m \in LoadMsgs :
        Decoded < MaxLoadMsgs /\ ClientReceive(c, m)

NextLoad == Accept \/ ReceiveLoad \/ Capture \/ Forward \/ SubscriberReceive

SpecLoad == Init /\ [][NextLoad]_vars

\* The pumps are goroutines: a pump that can take its next step takes it.
\* Nothing obliges a client to send or a subscriber to receive.
FairLoad ==
    /\ SpecLoad
    /\ \A c \in Conns : WF_vars(ClientCapture(c)) /\ WF_vars(ClientForward(c))

ReceiveReply ==
    \E c \in Conns, m \in ReplyMsgs :
        Decoded < MaxReplyMsgs /\ ClientReceive(c, m)

NextReply ==
    \/ Accept
    \/ ReceiveReply
    \/ Capture
    \/ Forward
    \/ BackReceive
    \/ BackCapture
    \/ BackForward
    \/ SubscriberReceive

SpecReply == Init /\ [][NextReply]_vars

\* queries that outnumber the channel's capacity, and the upstream's
\* answers, on one connection
ReceiveDuplex ==
    \E c \in Conns, m \in LoadMsgs :
        Decoded < MaxDuplexMsgs /\ ClientReceive(c, m)

NextDuplex ==
    \/ AcceptOne
    \/ ReceiveDuplex
    \/ Capture
    \/ Forward
    \/ BackReceive
    \/ BackCapture
    \/ BackForward

SpecDuplex == Init /\ [][NextDuplex]_vars

\* The life cycle: accepting, dialing, startup, relay and its end,
\* cancellation and Close.
LifeMsgs == {Query(qSelect)}
StartupMsgs == {AuthenticationOk, ReadyForQuery, ErrorResponse}
LifeBackendMsgs == {ReadyForQuery}

AcceptLife == \E c \in Conns : AcceptConn(c)
DialDrop == \E c \in Conns : DialFail(c)
DialUp == \E c \in Conns : DialOk(c)
Hello == \E c \in Conns : StartupHello(c)
AuthFail == \E c \in Conns : StartupFail(c)
AuthReceive ==
    \E c \in Conns, m \in StartupMsgs :
        DecodedBackend < MaxLifeBackendMsgs /\ StartupReceive(c, m)
AuthForward == \E c \in Conns : StartupForward(c)
AuthInspect == \E c \in Conns : StartupInspect(c)
PumpStart == \E c \in Conns : ClientPumpStart(c)
BackPumpStart == \E c \in Conns : UpstreamPumpStart(c)
ReceiveLife ==
    \E c \in Conns, m \in LifeMsgs :
        Decoded < MaxLifeMsgs /\ ClientReceive(c, m)
BackReceiveLife ==
    \E c \in Conns, m \in LifeBackendMsgs :
        DecodedBackend < MaxLifeBackendMsgs /\ UpstreamReceive(c, m)
Hangup == \E c \in Conns : ClientHangup(c)
ReceiveClosed == \E c \in Conns : ClientReceiveClosed(c)
ForwardErr == \E c \in Conns : ClientForwardErr(c)
BackHangup == \E c \in Conns : UpstreamHangup(c)
BackReceiveClosed == \E c \in Conns : UpstreamReceiveClosed(c)
BackForwardErr == \E c \in Conns : UpstreamForwardErr(c)
RelayClose == \E c \in Conns : relayClose(c)
RelayReturn == \E c \in Conns : relayReturn(c)

NextLife ==
    \/ ListenAndServe
    \/ Cancel
    \/ ListenerWatcher
    \/ AcceptLife
    \/ AcceptFail
    \/ CloseCall
    \/ CloseWait
    \/ DialDrop
    \/ DialUp
    \/ Hello
    \/ AuthFail
    \/ AuthReceive
    \/ AuthForward
    \/ AuthInspect
    \/ PumpStart
    \/ BackPumpStart
    \/ ReceiveLife
    \/ Capture
    \/ Forward
    \/ ForwardErr
    \/ Hangup
    \/ ReceiveClosed
    \/ BackReceiveLife
    \/ BackCapture
    \/ BackForward
    \/ BackForwardErr
    \/ BackHangup
    \/ BackReceiveClosed
    \/ RelayClose
    \/ RelayReturn

SpecLife == Init /\ [][NextLife]_vars

\* What the proxy does on its own it does eventually: the goroutines of
\* ListenAndServe, handleConn, relay and the pumps run, a dial ends, a
\* write ends, and a Receive on a closed connection fails.  Nothing
\* obliges a peer to send or to hang up, nor a caller to cancel or to call
\* Close.
FairLife ==
    /\ SpecLife
    /\ WF_vars(ListenerWatcher)
    /\ WF_vars(AcceptFail)
    /\ WF_vars(CloseWait)
    /\ \A c \in Conns :
          /\ WF_vars(DialOk(c) \/ DialFail(c))
          /\ WF_vars(StartupForward(c))
          /\ WF_vars(StartupInspect(c))
          /\ WF_vars(ClientPumpStart(c))
          /\ WF_vars(UpstreamPumpStart(c))
          /\ WF_vars(ClientCapture(c))
          /\ WF_vars(ClientForward(c))
          /\ WF_vars(ClientForwardErr(c))
          /\ WF_vars(ClientReceiveClosed(c))
          /\ WF_vars(UpstreamCapture(c))
          /\ WF_vars(UpstreamForward(c))
          /\ WF_vars(UpstreamForwardErr(c))
          /\ WF_vars(UpstreamReceiveClosed(c))
          /\ WF_vars(relayClose(c))
          /\ WF_vars(relayReturn(c))

\* The opening of connections: accept, dial, startup, and the first
\* messages of the relay; no cancellation, no Close, no peer hangs up
\* after the startup.
NextOpen ==
    \/ ListenAndServe
    \/ AcceptLife
    \/ DialDrop
    \/ DialUp
    \/ Hello
    \/ AuthFail
    \/ AuthReceive
    \/ AuthForward
    \/ AuthInspect
    \/ PumpStart
    \/ BackPumpStart
    \/ ReceiveLife
    \/ Capture
    \/ Forward

SpecOpen == Init /\ [][NextOpen]_vars

\* The end of a relay: a pump ends because its peer hangs up, a write
\* fails or the context is cancelled, and relay closes and returns.  A
\* relay touches nothing but its own connection: one client connects.
AcceptFirst == AcceptConn(1)
StartupOk ==
    \E c \in Conns :
        DecodedBackend < MaxLifeBackendMsgs
            /\ StartupReceive(c, ReadyForQuery)

NextRelay ==
    \/ ListenAndServe
    \/ Cancel
    \/ AcceptFirst
    \/ DialUp
    \/ Hello
    \/ StartupOk
    \/ AuthForward
    \/ AuthInspect
    \/ PumpStart
    \/ BackPumpStart
    \/ ReceiveLife
    \/ Capture
    \/ Forward
    \/ ForwardErr
    \/ Hangup
    \/ ReceiveClosed
    \/ BackReceiveLife
    \/ BackCapture
    \/ BackForward
    \/ BackForwardErr
    \/ BackHangup
    \/ BackReceiveClosed
    \/ RelayClose
    \/ RelayReturn

SpecRelay == Init /\ [][NextRelay]_vars

FairRelay ==
    /\ SpecRelay
    /\ \A c \in Conns :
          /\ WF_vars(StartupForward(c))
          /\ WF_vars(StartupInspect(c))
          /\ WF_vars(ClientPumpStart(c))
          /\ WF_vars(UpstreamPumpStart(c))
          /\ WF_vars(ClientCapture(c))
          /\ WF_vars(ClientForward(c))
          /\ WF_vars(ClientForwardErr(c))
          /\ WF_vars(ClientReceiveClosed(c))
          /\ WF_vars(UpstreamCapture(c))
          /\ WF_vars(UpstreamForward(c))
          /\ WF_vars(UpstreamForwardErr(c))
          /\ WF_vars(UpstreamReceiveClosed(c))
          /\ WF_vars(relayClose(c))
          /\ WF_vars(relayReturn(c))

\* Every way a connection handler ends: the dial fails, the startup fails,
\* the relay ends on a hang-up, on a failing Receive or on cancellation.
\* One client connects.
ReadErrs == {"reset", "closedText", "decode"}

ReceiveErr == \E c \in Conns, e \in ReadErrs : ClientReceiveErr(c, e)
BackReceiveErr == \E c \in Conns, e \in ReadErrs : UpstreamReceiveErr(c, e)

NextExit ==
    \/ ListenAndServe
    \/ Cancel
    \/ AcceptFirst
    \/ DialDrop
    \/ DialUp
    \/ Hello
    \/ AuthFail
    \/ AuthReceive
    \/ AuthForward
    \/ AuthInspect
    \/ PumpStart
    \/ BackPumpStart
    \/ ReceiveLife
    \/ Capture
    \/ Forward
    \/ ForwardErr
    \/ Hangup
    \/ ReceiveErr
    \/ ReceiveClosed
    \/ BackReceiveLife
    \/ BackCapture
    \/ BackForward
    \/ BackForwardErr
    \/ BackHangup
    \/ BackReceiveErr
    \/ BackReceiveClosed
    \/ RelayClose
    \/ RelayReturn

SpecExit == Init /\ [][NextExit]_vars

\* Two connections side by side, each with transactions and statements of
\* its own; the client of either may hang up at any time, which ends its
\* relay.
Pair == {1, 2}
PairMsgs ==
    {Query(qBegin), Query(qCommit), Query(qSelect),
     Parse("", qSum), Execute("")}

AcceptPair ==
    \E c \in Pair : serve = "accept" /\ listener = "open" /\ handleConn(c)
ReceivePair ==
    \E c \in Pair, m \in PairMsgs :
        Decoded < MaxPairMsgs /\ ClientReceive(c, m)

NextPair ==
    \/ ListenAndServe
    \/ AcceptPair
    \/ ReceivePair
    \/ Capture
    \/ Forward
    \/ Hangup
    \/ BackReceiveClosed
    \/ RelayClose
    \/ RelayReturn

SpecPair == Init /\ [][NextPair]_vars

\* Savepoints inside a transaction, by simple queries and by an unnamed
\* statement, with the upstream's answers; one connection.
SaveMsgs ==
    {Query(qBegin), Query(qSavepoint), Query(qRelease), Query(qRollbackTo),
     Parse("", qBegin), Parse("", qCommit), Bind("", "", argsNull),
     Execute(""), Sync}
SaveBackendMsgs == {CommandComplete(tagCreate), ErrorResponse}

ReceiveSave ==
    \E c \in Conns, m \in SaveMsgs :
        Decoded < MaxSaveMsgs /\ ClientReceive(c, m)
BackReceiveSave ==
    \E c \in Conns, m \in SaveBackendMsgs :
        DecodedBackend < MaxSaveBackendMsgs /\ UpstreamReceive(c, m)

NextSave ==
    \/ AcceptOne
    \/ ReceiveSave
    \/ Capture
    \/ Forward
    \/ BackReceiveSave
    \/ BackCapture
    \/ BackForward

SpecSave == Init /\ [][NextSave]_vars

\* Transactions on one connection while the channel is full at times: a
\* subscriber receives now and then.
DropMsgs == {Query(qBegin), Query(qCommit), Query(qSelect)}

ReceiveDrop ==
    \E c \in Conns, m \in DropMsgs :
        Decoded < MaxDropMsgs /\ ClientReceive(c, m)

NextDrop ==
    \/ AcceptOne
    \/ ReceiveDrop
    \/ Capture
    \/ Forward
    \/ SubscriberReceive

SpecDrop == Init /\ [][NextDrop]_vars

\* Two named statements bound to two named portals, on one connection.
PortalMsgs ==
    {Parse("s1", qSum), Parse("s2", qSelect),
     Bind("A", "s1", argsOneTwo), Bind("B", "s2", argsNull),
     Execute("A"), Execute("B")}

ReceivePortal ==
    \E c \in Conns, m \in PortalMsgs :
        Decoded < MaxPortalMsgs /\ ClientReceive(c, m)

NextPortal == AcceptOne \/ ReceivePortal \/ Capture \/ Forward

SpecPortal == Init /\ [][NextPortal]_vars

(***************************************************************************)
(* Views of the histories, for stating the properties.                     *)
(***************************************************************************)
\* the emission attempts of connection c, in order
AttemptsOf(c) ==
    LET Mine(a) == a.conn = c IN SelectSeq(attempts, Mine)

\* the message that triggered an attempt, and the messages decoded before it
Trigger(a) == clientLog[a.conn][a.at]
Before(a) == SubSeq(clientLog[a.conn], 1, a.at - 1)

\* the messages of connection c whose capture hook has run
Captured(c) ==
    SubSeq(clientLog[c], 1,
           Len(clientLog[c]) - (IF cpc[c] = "capture" THEN 1 ELSE 0))

SetMax(S) == CHOOSE x \in S : \A y \in S : y <= x

IsCommitClass(query) == HasPrefix(ToUpper(TrimSpace(query)), kwCOMMIT)
IsRollbackClass(query) == HasPrefix(ToUpper(TrimSpace(query)), kwROLLBACK)
IsTxClass(query) == IsBeginClass(query) \/ IsEndClass(query)

(***************************************************************************)
(* Transaction tracking (SpecTx).                                          *)
(***************************************************************************)

\* C1: when active_tx_id is a non-empty T and a Query or Execute with a
\* COMMIT- or ROLLBACK-class text is captured, the event handed to
\* emitEvent carries tx_id = T, and active_tx_id is empty afterwards.
C1_EndEventCarriesTx ==
    [][\A c \in Conns :
          (/\ cpc[c] = "capture"
           /\ cpc'[c] = "fwd"
           /\ st[c].activeTxID # <<>>
           /\ Len(attempts') = Len(attempts) + 1
           /\ IsEndClass(attempts'[Len(attempts')].ev.Query))
          => /\ attempts'[Len(attempts')].ev.TxID = st[c].activeTxID
             /\ st'[c].activeTxID = <<>>]_vars

\* C2 as stated: every event after a BEGIN-class query's event and before
\* the next COMMIT- or ROLLBACK-class query carries the tx_id of that
\* BEGIN's event.
C2_SameTxUntilEnd ==
    \A c \in Conns :
        LET A == AttemptsOf(c)
        IN  \A i \in 1..Len(A), j \in 1..Len(A) :
                (/\ i < j
                 /\ IsBeginClass(A[i].ev.Query)
                 /\ \A k \in (i + 1)..j : ~IsEndClass(A[k].ev.Query))
                => A[j].ev.TxID = A[i].ev.TxID

\* C2, amended: the event of a BEGIN-class query carries a fresh non-empty
\* tx_id; every event after it and before the next BEGIN-, COMMIT- or
\* ROLLBACK-class query carries that same tx_id; an event that is not of a
\* BEGIN-class query and has no BEGIN-class query before it that is not
\* followed by a COMMIT/ROLLBACK-class query before the event carries an
\* empty tx_id; active_tx_id is non-empty only when a BEGIN-class query
\* was observed and no COMMIT/ROLLBACK-class query after it.
C2_TxWindow ==
    /\ \A p \in 1..Len(attempts) :
          IsBeginClass(attempts[p].ev.Query)
          => /\ attempts[p].ev.TxID # <<>>
             /\ \A q \in 1..(p - 1) :
                    attempts[q].ev.TxID # attempts[p].ev.TxID
    /\ \A c \in Conns :
          LET A == AttemptsOf(c)
              Open(n) ==    \* a BEGIN among A[1..n] with no END after it
                  \E i \in 1..n :
                      /\ IsBeginClass(A[i].ev.Query)
                      /\ \A k \in (i + 1)..n : ~IsEndClass(A[k].ev.Query)
          IN  /\ \A i \in 1..Len(A), j \in 1..Len(A) :
                    (/\ i < j
                     /\ IsBeginClass(A[i].ev.Query)
                     /\ \A k \in (i + 1)..j : ~IsTxClass(A[k].ev.Query))
                    => A[j].ev.TxID = A[i].ev.TxID
              /\ \A j \in 1..Len(A) :
                    (~IsBeginClass(A[j].ev.Query) /\ ~Open(j - 1))
                    => A[j].ev.TxID = <<>>
              /\ st[c].activeTxID # <<>> => Open(Len(A))

\* reached: a BEGIN, a query inside the transaction carrying its tx_id, a
\* COMMIT-class query and a query after it that carries no tx_id
C2_Witness ==
    \E c \in Conns :
        LET A == AttemptsOf(c)
        IN  /\ Len(A) >= 4
            /\ IsBeginClass(A[1].ev.Query)
            /\ ~IsTxClass(A[2].ev.Query)
            /\ A[2].ev.TxID = A[1].ev.TxID
            /\ A[1].ev.TxID # <<>>
            /\ IsEndClass(A[3].ev.Query)
            /\ ~IsTxClass(A[4].ev.Query)
            /\ A[4].ev.TxID = <<>>

\* C9: the event of a BEGIN-class simple query has op Begin, of a
\* COMMIT-class one op Commit, of a ROLLBACK-class one op Rollback; op
\* Query is used only for simple queries that are none of these, and op
\* Execute only for Execute messages.
C9_OpMatchesQuery ==
    \A p \in 1..Len(attempts) :
        LET a == attempts[p]
            m == Trigger(a)
        IN  /\ (m.type = "Query" /\ IsBeginClass(m.String))
               => a.ev.Op = OpBegin
            /\ (m.type = "Query" /\ IsCommitClass(m.String))
               => a.ev.Op = OpCommit
            /\ (m.type = "Query" /\ IsRollbackClass(m.String))
               => a.ev.Op = OpRollback
            /\ a.ev.Op = OpQuery
               => (m.type = "Query" /\ ~IsTxClass(m.String))
            /\ a.ev.Op = OpExecute => m.type = "Execute"

(***************************************************************************)
(* Extended query tracking (SpecExt).                                      *)
(***************************************************************************)
\* the text an Execute refers to, from the messages decoded before it
ReferredQuery(log) ==
    LET binds == {i \in 1..Len(log) : log[i].type = "Bind"}
        name == IF binds = {} THEN ""
                ELSE log[SetMax(binds)].PreparedStatement
        named == {i \in 1..Len(log) :
                     log[i].type = "Parse" /\ log[i].Name = name}
        parses == {i \in 1..Len(log) : log[i].type = "Parse"}
    IN  IF name # "" /\ named # {}
        THEN log[SetMax(named)].Query
        ELSE IF parses # {} THEN log[SetMax(parses)].Query ELSE <<>>

\* the args an Execute refers to, from the messages decoded before it
ReferredArgs(log) ==
    LET binds == {i \in 1..Len(log) : log[i].type = "Bind"}
    IN  IF binds = {} THEN NilSlice
        ELSE LET ps == log[SetMax(binds)].Parameters
             IN  Slice([i \in 1..Len(ps) |->
                           IF ps[i].null THEN <<>> ELSE ps[i].bytes])

\* C3: the query of an Execute's event is the text most recently Parsed
\* under the statement name of the most recent Bind, if that name is not
\* empty and was ever Parsed, and the text of the most recent Parse
\* otherwise.
C3_ExecuteQuery ==
    \A p \in 1..Len(attempts) :
        Trigger(attempts[p]).type = "Execute"
        => attempts[p].ev.Query = ReferredQuery(Before(attempts[p]))

\* reached: an Execute resolved through the statement its Bind names,
\* while the most recent Parse holds another text
C3_Witness ==
    \E p \in 1..Len(attempts) :
        LET a == attempts[p]
            log == Before(a)
        IN  /\ Trigger(a).type = "Execute"
            /\ a.ev.Query = qSum
            /\ \E i, j, k \in 1..Len(log) :
                  /\ i < j /\ j < k
                  /\ log[i] = Parse("s1", qSum)
                  /\ log[j] = Parse("", qSelect)
                  /\ log[k].type = "Bind"
                  /\ log[k].PreparedStatement = "s1"
                  /\ \A n \in (j + 1)..Len(log) : log[n].type # "Parse"
                  /\ \A n \in (k + 1)..Len(log) : log[n].type # "Bind"

\* C4: the args of an Execute's event are the parameter values of the most
\* recent Bind, in order, each read as text; the event of a simple Query
\* has no args.
C4_ExecuteArgs ==
    \A p \in 1..Len(attempts) :
        LET a == attempts[p]
        IN  /\ Trigger(a).type = "Execute"
               => a.ev.Args = ReferredArgs(Before(a))
            /\ Trigger(a).type = "Query" => a.ev.Args = NilSlice

\* reached: an Execute with the two args of its Bind, and a simple Query
\* after a Bind
C4_Witness ==
    /\ \E p \in 1..Len(attempts) :
          /\ Trigger(attempts[p]).type = "Execute"
          /\ attempts[p].ev.Args = Slice(<<(<<"1">>), (<<"2">>)>>)
    /\ \E p \in 1..Len(attempts) :
          /\ Trigger(attempts[p]).type = "Query"
          /\ \E i \in 1..Len(Before(attempts[p])) :
                Before(attempts[p])[i].type = "Bind"

\* C5: the emission attempts of a connection are, in order, one for each
\* Query and each Execute whose capture hook has run, and no other.
C5_OneAttemptPerRequest ==
    \A c \in Conns :
        LET A == AttemptsOf(c)
            log == Captured(c)
            req == {i \in 1..Len(log) : IsRequest(log[i])}
        IN  /\ Len(A) = Cardinality(req)
            /\ \A k \in 1..Len(A) : A[k].at \in req
            /\ \A k \in 1..(Len(A) - 1) : A[k].at < A[k + 1].at

\* reached: a Parse, a Bind, an Execute and a Sync were captured and one
\* event was attempted
C5_Witness ==
    \E c \in Conns :
        LET log == Captured(c)
        IN  /\ Len(AttemptsOf(c)) = 1
            /\ \E i, j, k, n \in 1..Len(log) :
                  /\ log[i].type = "Parse"
                  /\ log[j].type = "Bind"
                  /\ log[k].type = "Execute"
                  /\ log[n].type = "Sync"

(***************************************************************************)
(* The event channel under load (SpecLoad, FairLoad).                      *)
(***************************************************************************)
\* the events of connection c that were placed on the channel, in the
\* order the channel hands them out
Out(c) ==
    LET Mine(x) == x.conn = c
    IN  SelectSeq(delivered, Mine) \o SelectSeq(events, Mine)

IsDecimal(s) ==
    /\ s # <<>>
    /\ \A i \in 1..Len(s) : IsDigit(s[i])
    /\ Len(s) > 1 => s[1] # "0"

\* C6: per connection, the events on the channel are in the order of
\* their triggering messages with strictly increasing ids; the id of the
\* k-th event a connection hands to emitEvent is the decimal rendering of
\* k (the counter's first value is 1); next_id never decreases.
C6_OrderedIds ==
    /\ [](\A c \in Conns :
            LET O == Out(c)
                A == AttemptsOf(c)
            IN  /\ \A i \in 1..(Len(O) - 1) :
                      /\ O[i].at < O[i + 1].at
                      /\ DigitsValue(O[i].ev.ID) < DigitsValue(O[i + 1].ev.ID)
                /\ \A k \in 1..Len(A) :
                      /\ IsDecimal(A[k].ev.ID)
                      /\ DigitsValue(A[k].ev.ID) = k)
    /\ [][\A c \in Conns : st'[c].nextID >= st[c].nextID]_vars

\* reached: the channel has handed out or holds two events of one
\* connection around an event of another connection
C6_Witness ==
    LET all == delivered \o events
    IN  \E i, j, k \in 1..Len(all) :
            /\ i < j /\ j < k
            /\ all[i].conn = all[k].conn
            /\ all[j].conn # all[i].conn

\* C7: whatever the channel holds and although no subscriber need ever
\* receive, the client-to-upstream pump finishes the message it has
\* decoded, and whenever it is back at Receive every decoded message has
\* been written to the upstream.
C7_RelayNotBlocked ==
    /\ [](\A c \in Conns : cpc[c] = "recv" => toUpstream[c] = clientLog[c])
    /\ \A c \in Conns : (cpc[c] # "recv") ~> (cpc[c] = "recv")

\* reached: nothing was ever received from the channel, it is full, the
\* last event was dropped and its query has been forwarded
C7_Witness ==
    /\ delivered = <<>>
    /\ Len(events) = ChanCap
    /\ Len(attempts) > ChanCap
    /\ LET a == attempts[Len(attempts)]
       IN  /\ a.at = Len(clientLog[a.conn])
           /\ cpc[a.conn] = "recv"
           /\ toUpstream[a.conn] = clientLog[a.conn]

Min(a, b) == IF a < b THEN a ELSE b

\* C8: the channel never holds more than its capacity; while nothing has
\* been received from it, it holds the first min(N, capacity) of the N
\* events handed to emitEvent, and every query whose processing has ended
\* has been written to the upstream.
C8_EarliestKept ==
    /\ Len(events) <= ChanCap
    /\ delivered = <<>> =>
          /\ Len(events) = Min(Len(attempts), ChanCap)
          /\ \A i \in 1..Len(events) : events[i] = attempts[i]
          /\ \A c \in Conns :
                toUpstream[c] =
                    SubSeq(clientLog[c], 1,
                           Len(clientLog[c])
                               - (IF cpc[c] = "recv" THEN 0 ELSE 1))

\* reached: with nothing received, more queries than the capacity went
\* through two connections and all were forwarded
C8_Witness ==
    /\ delivered = <<>>
    /\ Len(attempts) > ChanCap
    /\ \E p, q \in 1..Len(attempts) : attempts[p].conn # attempts[q].conn
    /\ \A c \in Conns : cpc[c] = "recv" /\ toUpstream[c] = clientLog[c]
    /\ SumLen(toUpstream, Conns) >= Len(attempts)

(***************************************************************************)
(* Answers of the upstream (SpecReply).                                    *)
(***************************************************************************)
\* C10: an event the subscriber receives after the upstream's
\* CommandComplete for its query has been written to the client carries
\* the row count of that CommandComplete's tag.
C10_RowsAffected ==
    \A i \in 1..Len(delivered) :
        LET d == delivered[i]
            k == Requests(SubSeq(clientLog[d.conn], 1, d.at))
            R == SelectSeq(toClient[d.conn], IsReply)
        IN  (d.seen >= k /\ R[k].type = "CommandComplete")
            => d.ev.RowsAffected = parseRowsAffected(R[k].CommandTag)

\* the reply of the upstream to the request that triggered a received
\* event, once it has been written to the client
AnswerOf(d) ==
    SelectSeq(toClient[d.conn], IsReply)
        [Requests(SubSeq(clientLog[d.conn], 1, d.at))]
Answered(d) == d.seen >= Requests(SubSeq(clientLog[d.conn], 1, d.at))

\* C11: an event the subscriber receives after the upstream's answer to
\* its query has been written to the client carries a non-empty error when
\* that answer is an ErrorResponse and an empty error when it is a
\* CommandComplete.
C11_ErrorCaptured ==
    \A i \in 1..Len(delivered) :
        LET d == delivered[i]
        IN  Answered(d)
            => /\ AnswerOf(d).type = "ErrorResponse" => d.ev.Error # <<>>
               /\ AnswerOf(d).type = "CommandComplete" => d.ev.Error = <<>>

\* C12: the emission attempts of a connection are as many as the Query
\* and Execute messages whose capture hook has run; no step of the
\* upstream-to-client pump adds an attempt or touches the channel; and a
\* backend message that has left the pump has been written to the client.
C12_NoBackendEvent ==
    /\ [](\A c \in Conns :
            /\ Len(AttemptsOf(c)) = Requests(Captured(c))
            /\ upc[c] = "recv" => toClient[c] = upstreamLog[c])
    /\ [][\A c \in Conns :
             upc'[c] # upc[c] => attempts' = attempts /\ events' = events]_vars

\* reached: a CommandComplete("CREATE TABLE") and an ErrorResponse have been
\* forwarded to the client of a connection with two queries and two
\* emission attempts
C12_Witness ==
    \E c \in Conns :
        /\ upc[c] = "recv"
        /\ cpc[c] = "recv"
        /\ \E i, j \in 1..Len(toClient[c]) :
              /\ toClient[c][i] = CommandComplete(tagCreate)
              /\ toClient[c][j] = ErrorResponse
        /\ Len(AttemptsOf(c)) = 2
        /\ Requests(clientLog[c]) = 2

\* the sequence without its last element
Front(seq) == SubSeq(seq, 1, Len(seq) - 1)

\* C13: in each direction the messages written are the messages read, in
\* order and unaltered, less the one message the pump holds between its
\* Receive and its write.
C13_RelayOrder ==
    \A c \in Conns :
        /\ toUpstream[c] =
              (IF cpc[c] \in {"capture", "fwd"} THEN Front(clientLog[c])
               ELSE clientLog[c])
        /\ toClient[c] =
              (IF upc[c] \in {"capture", "fwd"} THEN Front(upstreamLog[c])
               ELSE upstreamLog[c])
        /\ cpc[c] \in {"capture", "fwd"} =>
              cmsg[c] = clientLog[c][Len(clientLog[c])]
        /\ upc[c] \in {"capture", "fwd"} =>
              umsg[c] = upstreamLog[c][Len(upstreamLog[c])]

\* reached: the channel is full, an event was dropped, and both directions
\* of a connection have carried messages, the second query included
C13_Witness ==
    \E c \in Conns :
        /\ Len(events) = ChanCap
        /\ Len(attempts) > Len(events) + Len(delivered)
        /\ Len(toUpstream[c]) >= 2
        /\ toUpstream[c] = clientLog[c]
        /\ Len(toClient[c]) >= 1
        /\ toClient[c] = upstreamLog[c]

(***************************************************************************)
(* The opening of connections (SpecOpen).                                  *)
(***************************************************************************)
\* the positions of the messages that end relayStartup's loop
Terminal(seq) ==
    {i \in 1..Len(seq) :
        seq[i].type \in {"ReadyForQuery", "ErrorResponse"}}
\* the message that ended the startup phase, as the client saw it
FirstTerminal(seq) ==
    seq[CHOOSE i \in Terminal(seq) : \A j \in Terminal(seq) : i <= j]
StartedBy(seq, type) ==
    Terminal(seq) # {} /\ FirstTerminal(seq).type = type

\* C14: in relayStartup a message received from the upstream is written
\* to the client before the loop acts on it; the loop has ended normally
\* (the pumps run or have run) only if the message forwarded last in the
\* startup is a ReadyForQuery, and once a ReadyForQuery is forwarded the
\* loop ends normally; once an ErrorResponse is forwarded the loop ends
\* with the startup error; after a startup error no pump has taken a step
\* and no event was attempted for the connection.
C14_Startup ==
    /\ [](\A c \in Conns :
            /\ phase[c] \in {"hello", "auth"} =>
                  toClient[c] = upstreamLog[c] /\ Terminal(toClient[c]) = {}
            /\ phase[c] = "authFwd" =>
                  /\ toClient[c] = Front(upstreamLog[c])
                  /\ Terminal(toClient[c]) = {}
                  /\ umsg[c] = upstreamLog[c][Len(upstreamLog[c])]
            /\ phase[c] = "authInspect" =>
                  /\ toClient[c] = upstreamLog[c]
                  /\ umsg[c] = toClient[c][Len(toClient[c])]
                  /\ Terminal(Front(toClient[c])) = {}
            /\ (Pumping(c) \/ phase[c] = "done") =>
                  StartedBy(toClient[c], "ReadyForQuery")
            /\ StartedBy(toClient[c], "ReadyForQuery") =>
                  (Pumping(c) \/ phase[c] \in {"authInspect", "done"})
            /\ StartedBy(toClient[c], "ErrorResponse") =>
                  phase[c] \in {"authInspect", "startupErr"}
            /\ phase[c] = "startupErr" =>
                  /\ clientLog[c] = <<>>
                  /\ toUpstream[c] = <<>>
                  /\ AttemptsOf(c) = <<>>)
    /\ [][\A c \in Conns :
             /\ (cpc'[c] # cpc[c] \/ upc'[c] # upc[c]) =>
                   (phase'[c] = "relay"
                    /\ StartedBy(toClient'[c], "ReadyForQuery"))
             /\ phase[c] = "startupErr" => phase'[c] = "startupErr"]_vars

\* reached: an ErrorResponse was forwarded to the client of a connection
\* whose startup then failed, and another connection, started by a
\* ReadyForQuery, has relayed a query
C14_Witness ==
    \E c, d \in Conns :
        /\ phase[c] = "startupErr"
        /\ toClient[c] = <<ErrorResponse>>
        /\ phase[d] = "relay"
        /\ toClient[d] = <<ReadyForQuery>>
        /\ Len(AttemptsOf(d)) = 1
        /\ toUpstream[d] = clientLog[d]

\* C18: a connection whose dial failed has its client socket closed, was
\* never given an upstream socket, relayed nothing and attempted no
\* event; the step in which the dial fails leaves ListenAndServe in its
\* accept loop, the listener open and every other connection as it was;
\* and while the loop runs the next connection can be accepted.
C18_DialFailure ==
    /\ [](\A c \in Conns :
            phase[c] = "dropped" =>
                /\ clientConn[c] = "closed"
                /\ upstreamConn[c] = "none"
                /\ clientLog[c] = <<>> /\ toUpstream[c] = <<>>
                /\ upstreamLog[c] = <<>> /\ toClient[c] = <<>>
                /\ AttemptsOf(c) = <<>>)
    /\ [][\A c \in Conns :
             (phase[c] = "dial" /\ phase'[c] = "dropped") =>
                 /\ serve = "accept" /\ serve' = "accept"
                 /\ listener' = listener
                 /\ events' = events
                 /\ \A d \in Conns \ {c} :
                       /\ phase'[d] = phase[d]
                       /\ st'[d] = st[d]
                       /\ cpc'[d] = cpc[d] /\ upc'[d] = upc[d]
                       /\ clientConn'[d] = clientConn[d]
                       /\ upstreamConn'[d] = upstreamConn[d]]_vars
    /\ [](\A d \in Conns :
            (/\ serve = "accept"
             /\ listener = "open"
             /\ phase[d] = "idle"
             /\ \A e \in Conns : e < d => phase[e] # "idle")
            => ENABLED AcceptConn(d))

\* reached: the dial of the first connection failed, and the connection
\* accepted after it has relayed a query and attempted its event
C18_Witness ==
    /\ phase[1] = "dropped"
    /\ clientConn[1] = "closed"
    /\ serve = "accept"
    /\ phase[2] = "relay"
    /\ Len(AttemptsOf(2)) = 1
    /\ toUpstream[2] = clientLog[2]
    /\ clientLog[2] # <<>>

(***************************************************************************)
(* The end of a relay (FairRelay).                                         *)
(***************************************************************************)
\* C15: once a pump of a running relay has ended, the relay comes to its
\* end; when relay waits for the second pump or has returned, both
\* sockets are closed; and relay has returned only with both pumps ended.
C15_RelayEnds ==
    /\ [](\A c \in Conns :
            /\ phase[c] \in {"closing", "done"} =>
                  clientConn[c] = "closed" /\ upstreamConn[c] = "closed"
            /\ phase[c] = "done" => cpc[c] = "done" /\ upc[c] = "done")
    /\ \A c \in Conns :
          (Pumping(c) /\ (cpc[c] = "done" \/ upc[c] = "done"))
              ~> (phase[c] = "done")

\* reached: the client hung up while its query was relayed upstream, relay
\* has closed both sockets, and the upstream-to-client pump is still in
\* its Receive
C15_Witness ==
    \E c \in Conns :
        /\ phase[c] = "closing"
        /\ cpc[c] = "done"
        /\ upc[c] = "recv"
        /\ toUpstream[c] # <<>>
        /\ clientConn[c] = "closed"
        /\ upstreamConn[c] = "closed"
        /\ ~ctxDone

(***************************************************************************)
(* Cancellation and Close (SpecLife, FairLife).                            *)
(***************************************************************************)
\* C16: once the context is cancelled, a relay whose pumps run comes to
\* its end: its sockets are closed, both pumps return and relay returns.
C16_CancelEndsRelays ==
    \A c \in Conns :
        (ctxDone /\ Pumping(c))
            ~> (/\ phase[c] = "done"
                /\ clientConn[c] = "closed"
                /\ upstreamConn[c] = "closed")

\* C17: when Close has returned the listener is closed and no relay task
\* is running; when ListenAndServe has returned from a cancelled start no
\* relay task is running.
C17_CloseJoins ==
    /\ closeCall \in {"nil", "err"} =>
          listener = "closed" /\ \A c \in Conns : ~InFlight(c)
    /\ (serve = "returned" /\ ctxDone) => \A c \in Conns : ~InFlight(c)

(***************************************************************************)
(* Nested BEGIN (SpecTx).                                                  *)
(***************************************************************************)
\* C20: the event of a BEGIN-class query observed while a transaction is
\* active carries a non-empty tx_id that differs from the one it replaces
\* and from every tx_id seen before; the events after it and before the
\* next BEGIN-, COMMIT- or ROLLBACK-class query carry the new tx_id; and
\* when the last BEGIN-, COMMIT- or ROLLBACK-class query captured is a
\* COMMIT or ROLLBACK, active_tx_id is empty, however many BEGINs
\* preceded it.
C20_NestedBegin ==
    \A c \in Conns :
        LET A == AttemptsOf(c)
            tx == {i \in 1..Len(A) : IsTxClass(A[i].ev.Query)}
            Nested(i) ==   \* A[i] is a BEGIN and the last tx-class before it too
                /\ IsBeginClass(A[i].ev.Query)
                /\ \E p \in 1..(i - 1) :
                      /\ IsBeginClass(A[p].ev.Query)
                      /\ \A k \in (p + 1)..(i - 1) : ~IsTxClass(A[k].ev.Query)
        IN  /\ \A i \in 1..Len(A) :
                  Nested(i) =>
                      /\ A[i].ev.TxID # <<>>
                      /\ \A p \in 1..(i - 1) : A[p].ev.TxID # A[i].ev.TxID
                      /\ \A j \in (i + 1)..Len(A) :
                            (\A k \in (i + 1)..j : ~IsTxClass(A[k].ev.Query))
                            => A[j].ev.TxID = A[i].ev.TxID
            /\ (tx # {} /\ IsEndClass(A[SetMax(tx)].ev.Query))
                   => st[c].activeTxID = <<>>
            /\ (tx # {} /\ IsBeginClass(A[SetMax(tx)].ev.Query))
                   => st[c].activeTxID = A[SetMax(tx)].ev.TxID

\* reached: a BEGIN, a second BEGIN with another tx_id, a query carrying
\* the second tx_id, and one COMMIT after which active_tx_id is empty
C20_Witness ==
    \E c \in Conns :
        LET A == AttemptsOf(c)
        IN  /\ Len(A) = 4
            /\ IsBeginClass(A[1].ev.Query)
            /\ IsBeginClass(A[2].ev.Query)
            /\ A[1].ev.TxID # <<>>
            /\ A[2].ev.TxID # A[1].ev.TxID
            /\ ~IsTxClass(A[3].ev.Query)
            /\ A[3].ev.TxID = A[2].ev.TxID
            /\ IsEndClass(A[4].ev.Query)
            /\ st[c].activeTxID = <<>>

(***************************************************************************)
(* Two connections (SpecPair).                                             *)
(***************************************************************************)
\* the events the capture hooks hand to emitEvent when they run over the
\* messages of log alone, from the tracking state s, k identifiers drawn
RECURSIVE Replay(_, _, _)
Replay(log, s, k) ==
    IF log = <<>> THEN <<>>
    ELSE LET r == captureClientMsg(s, Head(log), uuidNew(k + 1))
         IN  r.evs \o Replay(Tail(log), r.st, IF r.used THEN k + 1 ELSE k)

\* a sequence of events with its tx_ids renamed in the order of their
\* first appearance (the identifiers themselves are drawn at random)
Canon(E) ==
    [i \in 1..Len(E) |->
        LET t == E[i].TxID
            first == CHOOSE j \in 1..i :
                         E[j].TxID = t /\ \A k \in 1..(j - 1) : E[k].TxID # t
            rank == Cardinality({E[j].TxID : j \in 1..first} \ {<<>>})
        IN  [E[i] EXCEPT !.TxID = IF t = <<>> THEN <<>> ELSE uuidNew(rank)]]

EventsOf(c) == [i \in 1..Len(AttemptsOf(c)) |-> AttemptsOf(c)[i].ev]

\* what belongs to one connection
Local(c) ==
    <<phase[c], st[c], cpc[c], cmsg[c], clientLog[c], toUpstream[c],
      upc[c], umsg[c], upstreamLog[c], toClient[c], clientConn[c],
      upstreamConn[c], errCh[c], err[c]>>

C21_TxFrame ==
    [][\A c \in Conns :
          LET n == Len(attempts')
              Request == /\ cpc[c] = "capture"
                         /\ cpc'[c] = "fwd"
                         /\ cmsg[c].type \in {"Query", "Execute"}
                         /\ n = Len(attempts) + 1
          IN  /\ st'[c].activeTxID # st[c].activeTxID
                    => Request /\ IsTxClass(attempts'[n].ev.Query)
              /\ (Request /\ IsBeginClass(attempts'[n].ev.Query))
                    => /\ st'[c].activeTxID # <<>>
                       /\ st'[c].activeTxID # st[c].activeTxID
              /\ (Request /\ IsEndClass(attempts'[n].ev.Query))
                    => st'[c].activeTxID = <<>>
              /\ (Request /\ attempts'[n].ev.Query \in {qSavepoint, qRelease})
                    => st'[c].activeTxID = st[c].activeTxID
              /\ (Request /\ attempts'[n].ev.Query = qRollbackTo)
                    => st'[c].activeTxID = <<>>]_vars

\* reached: inside a transaction a SAVEPOINT query left active_tx_id as it
\* was, and a ROLLBACK TO SAVEPOINT query cleared it
C21_Witness ==
    \E c \in Conns :
        LET A == AttemptsOf(c)
        IN  /\ Len(A) = 3
            /\ IsBeginClass(A[1].ev.Query)
            /\ A[1].ev.TxID # <<>>
            /\ A[2].ev.Query = qSavepoint
            /\ A[2].ev.TxID = A[1].ev.TxID
            /\ A[3].ev.Query = qRollbackTo
            /\ st[c].activeTxID = <<>>

(***************************************************************************)
(* The two pumps and the tracking state (SpecSave).                        *)
(***************************************************************************)
\* a step of the upstream-to-client pump of connection c
UpstreamStep(c) ==
    upc'[c] # upc[c] \/ umsg'[c] # umsg[c]
        \/ upstreamLog'[c] # upstreamLog[c] \/ toClient'[c] # toClient[c]

\* C22: no step of the upstream-to-client pump, its handling of
\* CommandComplete and ErrorResponse included, changes prepared_stmts,
\* last_parse, last_bind_stmt, last_bind_args, active_tx_id or next_id,
\* and its capture hook yields the same whatever these fields hold: only
\* steps of the client-to-upstream pump write them, so the two pumps,
\* running side by side, never access them in conflict.
C22_OnlyClientPumpWrites ==
    /\ [][\A c \in Conns :
             /\ UpstreamStep(c) => st'[c] = st[c] /\ uuids' = uuids
             /\ (Pumping(c) /\ st'[c] # st[c])
                    => cpc[c] = "capture" /\ cpc'[c] = "fwd"]_vars
    /\ [](\A c \in Conns :
            upc[c] = "capture" =>
                /\ captureUpstreamMsg(st[c], umsg[c]).st = st[c]
                /\ captureUpstreamMsg(InitConnState, umsg[c]).evs
                       = captureUpstreamMsg(st[c], umsg[c]).evs)

\* reached: inside a transaction the upstream's
\* ErrorResponse went through the upstream-to-client pump's hook while
\* the client-to-upstream pump was in its own hook, and the transaction
\* is still active
C22_Witness ==
    \E c \in Conns :
        /\ upc[c] = "fwd"
        /\ umsg[c].type = "ErrorResponse"
        /\ cpc[c] = "capture"
        /\ st[c].activeTxID # <<>>
        /\ st[c].nextID = 1

(***************************************************************************)
(* Dropped events (SpecDrop).                                              *)
(***************************************************************************)
\* the events of connection c a subscriber has received, in order
DeliveredOf(c) ==
    LET Mine(x) == x.conn = c IN SelectSeq(delivered, Mine)

\* C24: the capture of a Query or Execute that finds the channel full
\* leaves the channel as it is, and still increments next_id, gives the
\* event that id and applies the transaction detection: a BEGIN-class
\* text sets a new non-empty active_tx_id, a COMMIT- or ROLLBACK-class
\* text clears it, the event carries the resulting value.  The k-th event
\* handed to emitEvent has id k whether or not earlier ones were dropped,
\* so the ids of the events delivered for a connection increase strictly.
C24_DropKeepsEffects ==
    /\ [][\A c \in Conns :
             (/\ cpc[c] = "capture"
              /\ cpc'[c] = "fwd"
              /\ IsRequest(cmsg[c])
              /\ Len(events) = ChanCap)
             => LET ev == attempts'[Len(attempts')].ev
                IN  /\ events' = events
                    /\ Len(attempts') = Len(attempts) + 1
                    /\ st'[c].nextID = st[c].nextID + 1
                    /\ ev.ID = FormatUint(st'[c].nextID)
                    /\ ev.TxID = st'[c].activeTxID
                    /\ IsBeginClass(ev.Query)
                          => /\ st'[c].activeTxID # <<>>
                             /\ st'[c].activeTxID # st[c].activeTxID
                    /\ IsEndClass(ev.Query) => st'[c].activeTxID = <<>>
                    /\ ~IsTxClass(ev.Query)
                          => st'[c].activeTxID = st[c].activeTxID]_vars
    /\ [](\A c \in Conns :
            LET D == DeliveredOf(c)
                A == AttemptsOf(c)
            IN  /\ st[c].nextID = Len(A)
                /\ \A k \in 1..Len(A) : DigitsValue(A[k].ev.ID) = k
                /\ \A i \in 1..(Len(D) - 1) :
                      DigitsValue(D[i].ev.ID) < DigitsValue(D[i + 1].ev.ID))

\* reached: a BEGIN was dropped on the full channel, the events delivered
\* have the ids 1, 2 and 4, and the last one carries the tx_id of the
\* dropped BEGIN
C24_Witness ==
    \E c \in Conns :
        LET D == DeliveredOf(c)
            A == AttemptsOf(c)
        IN  /\ Len(A) = 4
            /\ Len(D) = 3
            /\ D[1].ev.ID = <<"1">>
            /\ D[2].ev.ID = <<"2">>
            /\ D[3].ev.ID = <<"4">>
            /\ IsBeginClass(A[3].ev.Query)
            /\ ~IsTxClass(A[4].ev.Query)
            /\ D[3].ev.TxID = A[3].ev.TxID
            /\ D[3].ev.TxID # <<>>
            /\ st[c].activeTxID = A[3].ev.TxID

(***************************************************************************)
(* Portals (SpecPortal).                                                   *)
(***************************************************************************)
\* the positions of the Binds in a sequence of messages
BindsIn(log) == {i \in 1..Len(log) : log[i].type = "Bind"}

\* the statement name bound to a portal by the last Bind that names the
\* portal (what the upstream executes for an Execute of that portal)
BoundTo(log, portal) ==
    LET mine == {i \in BindsIn(log) : log[i].DestinationPortal = portal}
    IN  IF mine = {} THEN "" ELSE log[SetMax(mine)].PreparedStatement

C23_FirstError ==
    \A c \in Conns :
        phase[c] = "done" =>
            err[c] = IF \E i \in 1..Len(errCh[c]) : errCh[c][i] = "err"
                     THEN "err" ELSE "nil"

\* C26: when a connection handler has returned, by whichever path, its
\* client socket is closed, and its upstream socket is closed if the dial
\* succeeded: the socket was dialed on every path but the dial failure.
C26_SocketsClosed ==
    \A c \in Conns :
        /\ Returned(c) =>
              clientConn[c] = "closed" /\ upstreamConn[c] # "open"
        /\ phase[c] = "dropped" => upstreamConn[c] = "none"
        /\ phase[c] \in {"startupErr", "done"} => upstreamConn[c] = "closed"

\* reached: a relay that carried a query ended with an error of its
\* client-to-upstream pump, and the handler has returned with both
\* sockets closed
C26_Witness ==
    \E c \in Conns :
        /\ phase[c] = "done"
        /\ err[c] = "err"
        /\ toUpstream[c] # <<>>
        /\ clientConn[c] = "closed"
        /\ upstreamConn[c] = "closed"

====
